---- MODULE Spec2Model ----
(***************************************************************************)
(* Model of main.py: the Whisper transcription API.                        *)
(*                                                                         *)
(* Two threads exist.  The event-loop thread runs the request handlers;    *)
(* they are `async def` functions without any `await`, so a handler runs   *)
(* to its end before the next handler starts.  The single thread of        *)
(* ThreadPoolExecutor(max_workers=1) runs process_transcription_async for  *)
(* the submitted tasks, one after the other.  Steps of the two threads     *)
(* interleave freely, except where jobs_lock orders them.                  *)
(***************************************************************************)
EXTENDS Integers, Sequences, FiniteSets, TLC

\* Number of POST /transcribe-async requests a run may make.
MaxJobs == 2

\* Python's None.
None == "None"

\* Upload names sent to POST /transcribe-async.
FileNames == {"a"}

\* Upload names sent to POST /transcribe.  The name is spelled like the temp
\* file of the first asynchronous job, which nothing in the code forbids.
SyncFileNames == {"j1_a"}

\* Values of the `language` parameter.  The value is stored and handed to the
\* engine, which is opaque here; `if language:` picks between two calls of it.
Languages == {"en"}

\* Ids asked for by GET /transcribe-status/{job_id}: the generated ones and
\* one that no submission generates.
UnknownId == "nope"

\* What the engine can return: (segments, info).  Times are in 1/1000 s,
\* probabilities in 1/100000, so that rounding to 2 and to 4 places acts.
EngineOutputs ==
  { [ segments |-> << [start |-> 1234, end |-> 2345, text |-> "hi"],
                      [start |-> 2345, end |-> 3005, text |-> "yo"] >>,
      language |-> "en",
      language_probability |-> 98765,
      all_language_probs |-> << <<"en", 98765>>, <<"es", 1235>> >> ],
    [ segments |-> << >>,
      language |-> "es",
      language_probability |-> 50000,
      all_language_probs |-> << >> ] }

\* The engine outputs the assembly of a result is checked on: up to
\* MaxSegments segments, each text one of SegmentTexts, with no, two or
\* eleven ranked languages.
MaxSegments == 3
SegmentTexts == {"hi", "yo"}

RankedLanguages ==
  { << >>,
    << <<"en", 98765>>, <<"es", 1235>> >>,
    [ i \in 1..11 |-> << "l" \o ToString(i), 9005 - (i * i) >> ] }

AssembleInputs ==
  { [ segments |-> [ i \in 1..n |-> [ start |-> (1000 * (i - 1)) + 234,
                                      end |-> (1000 * i) + 115,
                                      text |-> texts[i] ] ],
      language |-> "en",
      language_probability |-> 98765,
      all_language_probs |-> probs ] :
      n \in 0..MaxSegments, texts \in [1..MaxSegments -> SegmentTexts],
      probs \in RankedLanguages }

\* str(e) of an engine failure, of a missing dict key.
EngineError == "engine error"
KeyError == "KeyError"

VARIABLES
  jobs,        \* the dict `jobs`: job_id -> record (a dict of its own)
  jobs_lock,   \* who holds jobs_lock: "free" or "worker" (a handler takes and
               \* releases it within one step)
  queue,       \* the executor's work queue: tasks submitted, not yet claimed
  files,       \* the files that exist in ./temp
  worker,      \* the executor's thread: position and locals of the task it runs
  loop,        \* the event-loop thread: position and locals of the handler it runs
  resp,        \* the response sent by the step just taken, NoResponse when none
  clock,       \* datetime.utcnow(): per thread, the number of readings it took
  nextId,      \* number of uuid4() calls made so far
  \* history, written and never read by the program
  statusLog,   \* job_id -> the status values written to its record, in order
  enqueued,    \* the job ids in the order executor.submit took their tasks
  started,     \* the job ids in the order their tasks were claimed
  accepted,    \* the job ids returned to a caller with 202
  raised,      \* the job ids whose engine invocation raised
  removeFailed,\* the job ids whose os.remove in the worker raised
  finished,    \* the job ids whose task function has returned
  escaped,     \* the job ids whose task function let an exception out
  syncStaged   \* the temp paths staged by POST /transcribe

vars == << jobs, jobs_lock, queue, files, worker, loop, resp, clock, nextId,
           statusLog, enqueued, started, accepted, raised, removeFailed,
           finished, escaped, syncStaged >>

hist == << statusLog, enqueued, started, accepted, raised, removeFailed,
           finished, escaped, syncStaged >>

----------------------------------------------------------------------------
\* Helpers

\* str(uuid.uuid4()): the n-th call yields an id no other call yields.
Uuid(n) == "j" \o ToString(n)

\* temp_dir / f"{job_id}_{file.filename}"
AsyncTempFile(job_id, filename) == job_id \o "_" \o filename

\* temp_dir / file.filename
SyncTempFile(filename) == filename

\* datetime.utcnow().isoformat() read by `thread`.  The program stores the
\* readings and never compares them, so a reading is known by the thread that
\* took it and its rank among the readings of that thread.
UtcNow(thread) == << thread, clock[thread] + 1 >>

\* The clock after `thread` has taken a reading.
Ticked(thread) == [clock EXCEPT ![thread] = @ + 1]

\* dict.update(u) on the dict d: the keys of u are set, the others are kept.
DictUpdate(d, u) == u @@ d

\* The segment texts joined with a single space.
RECURSIVE Join(_)
Join(texts) ==
  IF Len(texts) = 0 THEN ""
  ELSE IF Len(texts) = 1 THEN texts[1]
  ELSE texts[1] \o " " \o Join(Tail(texts))

\* round(x, ndigits) on a value kept in units ten times finer than the
\* digit rounded to: the nearest multiple of 10, a tie going to the even one.
Round(x) ==
  LET q == x \div 10
      r == x % 10
  IN  IF r < 5 THEN 10 * q
      ELSE IF r > 5 THEN 10 * (q + 1)
      ELSE IF q % 2 = 0 THEN 10 * q ELSE 10 * (q + 1)

\* info.all_language_probs[:10], each probability rounded.
Candidates(probs) ==
  [ i \in 1..(IF Len(probs) < 10 THEN Len(probs) ELSE 10) |->
      [language |-> probs[i][1], probability |-> Round(probs[i][2])] ]

\* AssembleAsync over reversed(segments_list): the last segment comes first.
AssembleAsyncReversed(out) ==
  LET n == Len(out.segments)
      segments_list == [ i \in 1..n |-> out.segments[n + 1 - i] ]
      base ==
        [ success |-> TRUE,
          transcript |-> Join([i \in 1..Len(segments_list) |-> segments_list[i].text]),
          language |-> out.language,
          language_probability |-> Round(out.language_probability),
          segments |-> [ i \in 1..Len(segments_list) |->
                           [ id |-> i - 1,
                             start |-> Round(segments_list[i].start),
                             end |-> Round(segments_list[i].end),
                             text |-> segments_list[i].text ] ] ]
  IN  IF Len(out.all_language_probs) > 0
        THEN [all_language_candidates |-> Candidates(out.all_language_probs)] @@ base
        ELSE base

\* The result dict the worker builds from the engine's output.
AssembleAsync(out) ==
  LET segments_list == out.segments
      base ==
        [ success |-> TRUE,
          transcript |-> Join([i \in 1..Len(segments_list) |-> segments_list[i].text]),
          language |-> out.language,
          language_probability |-> Round(out.language_probability),
          segments |-> [ i \in 1..Len(segments_list) |->
                           [ id |-> i - 1,
                             start |-> Round(segments_list[i].start),
                             end |-> Round(segments_list[i].end),
                             text |-> segments_list[i].text ] ] ]
  IN  IF Len(out.all_language_probs) > 0
        THEN [all_language_candidates |-> Candidates(out.all_language_probs)] @@ base
        ELSE base

\* The response dict POST /transcribe builds from the engine's output.
AssembleSync(out) ==
  LET segments_list == out.segments
      base ==
        [ success |-> TRUE,
          transcript |-> Join([i \in 1..Len(segments_list) |-> segments_list[i].text]),
          language |-> out.language,
          language_probability |-> Round(out.language_probability),
          segments |-> [ i \in 1..Len(segments_list) |->
                           [ id |-> i - 1,
                             start |-> segments_list[i].start,
                             end |-> segments_list[i].end,
                             text |-> segments_list[i].text ] ] ]
  IN  IF Len(out.all_language_probs) > 0
        THEN [all_language_candidates |-> Candidates(out.all_language_probs)] @@ base
        ELSE base

\* What `resp` holds after a step that ends no request.
NoResponse == [kind |-> "none", handler |-> None, job_id |-> None]

\* Whether a local that starts as << >> has been assigned a dict.
Bound(local) == DOMAIN local # {}

\* The worker thread between two tasks, the event loop between two handlers.
WorkerIdle ==
  [pc |-> "idle", job_id |-> None, file_path |-> None, language |-> None,
   out |-> << >>, result |-> << >>, exc |-> None]

LoopIdle ==
  [pc |-> "idle", job_id |-> None, filename |-> None, language |-> None,
   temp_file |-> None, out |-> << >>, result |-> << >>]

\* A write of the dict u into the record of job_id; the status it carries,
\* if any, is noted in the history.
WriteJob(job_id, u) ==
  /\ jobs' = (job_id :> DictUpdate(IF job_id \in DOMAIN jobs THEN jobs[job_id]
                                   ELSE [k \in {} |-> None], u)) @@ jobs
  /\ statusLog' =
       IF "status" \in DOMAIN u
         THEN (job_id :> Append(IF job_id \in DOMAIN statusLog THEN statusLog[job_id]
                                ELSE << >>, u["status"])) @@ statusLog
         ELSE statusLog

----------------------------------------------------------------------------
Init ==
  /\ jobs = [k \in {} |-> None]
  /\ jobs_lock = "free"
  /\ queue = << >>
  /\ files = {}
  /\ worker = WorkerIdle
  /\ loop = LoopIdle
  /\ resp = NoResponse
  /\ clock = [thread \in {"loop", "worker"} |-> 0]
  /\ nextId = 0
  /\ statusLog = [k \in {} |-> << >>]
  /\ enqueued = << >>
  /\ started = << >>
  /\ accepted = {}
  /\ raised = {}
  /\ removeFailed = {}
  /\ finished = {}
  /\ escaped = {}
  /\ syncStaged = {}

----------------------------------------------------------------------------
\* POST /transcribe-async

\* AsyncStage with the record of line 160 written before the upload is
\* staged: a staging failure leaves it behind.
AsyncStageRecordFirst(filename, language) ==
  /\ loop.pc = "idle"
  /\ nextId < MaxJobs
  /\ nextId' = nextId + 1
  /\ LET job_id == Uuid(nextId + 1)
         temp_file == AsyncTempFile(job_id, filename)
     IN  /\ WriteJob(job_id, [ status |-> "queued",
                               created_at |-> UtcNow("loop"),
                               filename |-> filename,
                               language_requested |-> language ])
         /\ clock' = Ticked("loop")
         /\ \E outcome \in {"ok", "open_raises", "copy_raises"} :
              /\ files' = IF outcome = "open_raises" THEN files
                          ELSE files \cup {temp_file}
              /\ IF outcome = "ok"
                   THEN /\ loop' = [LoopIdle EXCEPT !.pc = "a_submit",
                                                    !.job_id = job_id,
                                                    !.filename = filename,
                                                    !.language = language,
                                                    !.temp_file = temp_file]
                        /\ resp' = NoResponse
                   ELSE /\ loop' = LoopIdle
                        /\ resp' = [kind |-> "500", handler |-> "transcribe_async",
                                    job_id |-> job_id]
  /\ UNCHANGED << jobs_lock, queue, worker, enqueued, started, accepted, raised,
                  removeFailed, finished, escaped, syncStaged >>

\* Lines 147-157 and, when staging raises, 178-180: the id, the temp path and
\* the copy of the upload.  mkdir or open may raise before the file exists,
\* copyfileobj after it does; both end the request with 500.
AsyncStage(filename, language) ==
  /\ loop.pc = "idle"
  /\ nextId < MaxJobs
  /\ nextId' = nextId + 1
  /\ LET job_id == Uuid(nextId + 1)
         temp_file == AsyncTempFile(job_id, filename)
     IN  \E outcome \in {"ok", "open_raises", "copy_raises"} :
           /\ files' = IF outcome = "open_raises" THEN files
                       ELSE files \cup {temp_file}
           /\ IF outcome = "ok"
                THEN /\ loop' = [LoopIdle EXCEPT !.pc = "a_record",
                                                 !.job_id = job_id,
                                                 !.filename = filename,
                                                 !.language = language,
                                                 !.temp_file = temp_file]
                     /\ resp' = NoResponse
                ELSE /\ loop' = LoopIdle
                     /\ resp' = [kind |-> "500", handler |-> "transcribe_async",
                                 job_id |-> job_id]
  /\ UNCHANGED << jobs, jobs_lock, queue, worker, clock, hist >>

\* Lines 159-165: jobs[job_id] = {...}, written without jobs_lock.
AsyncCreateRecord ==
  /\ loop.pc = "a_record"
  /\ jobs' = (loop.job_id :> [ status |-> "queued",
                               created_at |-> UtcNow("loop"),
                               filename |-> loop.filename,
                               language_requested |-> loop.language ]) @@ jobs
  /\ statusLog' = (loop.job_id :>
                     Append(IF loop.job_id \in DOMAIN statusLog
                              THEN statusLog[loop.job_id] ELSE << >>, "queued"))
                  @@ statusLog
  /\ clock' = Ticked("loop")
  /\ loop' = [loop EXCEPT !.pc = "a_submit"]
  /\ resp' = NoResponse
  /\ UNCHANGED << jobs_lock, queue, files, worker, nextId, enqueued,
                  started, accepted, raised, removeFailed, finished, escaped,
                  syncStaged >>

\* Lines 169-176: executor.submit(...) and the 202 response.
AsyncEnqueue ==
  /\ loop.pc = "a_submit"
  /\ queue' = Append(queue, [job_id |-> loop.job_id,
                             file_path |-> loop.temp_file,
                             language |-> loop.language])
  /\ enqueued' = Append(enqueued, loop.job_id)
  /\ accepted' = accepted \cup {loop.job_id}
  /\ resp' = [kind |-> "202", handler |-> "transcribe_async",
              job_id |-> loop.job_id, status |-> "queued"]
  /\ loop' = LoopIdle
  /\ UNCHANGED << jobs, jobs_lock, files, worker, clock, nextId, statusLog,
                  started, raised, removeFailed, finished, escaped, syncStaged >>

----------------------------------------------------------------------------
\* The executor's thread

\* WorkerClaim on a stack instead of a queue: the newest task is taken.
WorkerClaimNewest ==
  /\ worker.pc = "idle"
  /\ queue # << >>
  /\ worker' = [WorkerIdle EXCEPT !.pc = "start",
                                  !.job_id = queue[Len(queue)].job_id,
                                  !.file_path = queue[Len(queue)].file_path,
                                  !.language = queue[Len(queue)].language]
  /\ queue' = SubSeq(queue, 1, Len(queue) - 1)
  /\ started' = Append(started, queue[Len(queue)].job_id)
  /\ resp' = NoResponse
  /\ UNCHANGED << jobs, jobs_lock, files, loop, clock, nextId, statusLog,
                  enqueued, accepted, raised, removeFailed, finished, escaped,
                  syncStaged >>

\* ThreadPoolExecutor(max_workers=1): the one thread takes the oldest task
\* of the queue when it has none, and calls process_transcription_async.
WorkerClaim ==
  /\ worker.pc = "idle"
  /\ queue # << >>
  /\ worker' = [WorkerIdle EXCEPT !.pc = "start",
                                  !.job_id = Head(queue).job_id,
                                  !.file_path = Head(queue).file_path,
                                  !.language = Head(queue).language]
  /\ queue' = Tail(queue)
  /\ started' = Append(started, Head(queue).job_id)
  /\ resp' = NoResponse
  /\ UNCHANGED << jobs, jobs_lock, files, loop, clock, nextId, statusLog,
                  enqueued, accepted, raised, removeFailed, finished, escaped,
                  syncStaged >>

\* `with jobs_lock:` at lines 186, 241 and 252: the thread waits until the
\* lock is free and takes it.
WorkerAcquire ==
  /\ worker.pc \in {"start", "store", "except"}
  /\ jobs_lock = "free"
  /\ jobs_lock' = "worker"
  /\ worker' = [worker EXCEPT !.pc = CASE worker.pc = "start" -> "mark"
                                       [] worker.pc = "store" -> "completed"
                                       [] worker.pc = "except" -> "error"]
  /\ resp' = NoResponse
  /\ UNCHANGED << jobs, queue, files, loop, clock, nextId, hist >>

\* WorkerMarkProcessing with line 187 left out: started_at is written, the
\* status is not.
WorkerMarkProcessingNoStatus ==
  /\ worker.pc = "mark"
  /\ jobs_lock' = "free"
  /\ IF worker.job_id \in DOMAIN jobs
       THEN /\ WriteJob(worker.job_id, [started_at |-> UtcNow("worker")])
            /\ clock' = Ticked("worker")
            /\ worker' = [worker EXCEPT !.pc = "engine"]
       ELSE /\ UNCHANGED << jobs, statusLog, clock >>
            /\ worker' = [worker EXCEPT !.pc = "except", !.exc = KeyError]
  /\ resp' = NoResponse
  /\ UNCHANGED << queue, files, loop, nextId, enqueued, started, accepted,
                  raised, removeFailed, finished, escaped, syncStaged >>

\* Lines 187-188, and the release of the lock.  A missing record is a
\* KeyError, which the handler at line 250 takes.
WorkerMarkProcessing ==
  /\ worker.pc = "mark"
  /\ jobs_lock' = "free"
  /\ IF worker.job_id \in DOMAIN jobs
       THEN /\ WriteJob(worker.job_id, [status |-> "processing",
                                        started_at |-> UtcNow("worker")])
            /\ clock' = Ticked("worker")
            /\ worker' = [worker EXCEPT !.pc = "engine"]
       ELSE /\ UNCHANGED << jobs, statusLog, clock >>
            /\ worker' = [worker EXCEPT !.pc = "except", !.exc = KeyError]
  /\ resp' = NoResponse
  /\ UNCHANGED << queue, files, loop, nextId, enqueued, started, accepted,
                  raised, removeFailed, finished, escaped, syncStaged >>

\* Lines 190-206: get_model() and whisper_model.transcribe(str(file_path), ...),
\* which opens the file; a missing file raises.
WorkerEngineStart ==
  /\ worker.pc = "engine"
  /\ IF worker.file_path \in files
       THEN /\ worker' = [worker EXCEPT !.pc = "transcribing"]
            /\ raised' = raised
       ELSE /\ worker' = [worker EXCEPT !.pc = "except", !.exc = EngineError]
            /\ raised' = raised \cup {worker.job_id}
  /\ resp' = NoResponse
  /\ UNCHANGED << jobs, jobs_lock, queue, files, loop, clock, nextId,
                  statusLog, enqueued, started, accepted, removeFailed, finished,
                  escaped, syncStaged >>


\* WorkerEngineReturn with the file removed as soon as the engine has
\* returned, before the result is stored.
WorkerEngineReturnRemoveFirst ==
  /\ worker.pc = "transcribing"
  /\ \E out \in EngineOutputs :
       worker' = [worker EXCEPT !.pc = "store", !.out = out,
                                !.result = AssembleAsync(out)]
  /\ files' = files \ {worker.file_path}
  /\ resp' = NoResponse
  /\ UNCHANGED << jobs, jobs_lock, queue, loop, clock, nextId, hist >>

\* Lines 208-238: the segments are drained and the result dict is built.
WorkerEngineReturn ==
  /\ worker.pc = "transcribing"
  /\ \E out \in EngineOutputs :
       worker' = [worker EXCEPT !.pc = "store", !.out = out,
                                !.result = AssembleAsync(out)]
  /\ resp' = NoResponse
  /\ UNCHANGED << jobs, jobs_lock, queue, files, loop, clock, nextId, hist >>

\* WorkerEngineRaise without the `except` clause at line 250, with an executor
\* whose thread ends with the task that raised.
WorkerEngineRaiseUncaught ==
  /\ worker.pc = "transcribing"
  /\ worker' = [worker EXCEPT !.pc = "dead", !.exc = EngineError]
  /\ raised' = raised \cup {worker.job_id}
  /\ escaped' = escaped \cup {worker.job_id}
  /\ resp' = NoResponse
  /\ UNCHANGED << jobs, jobs_lock, queue, files, loop, clock, nextId,
                  statusLog, enqueued, started, accepted, removeFailed, finished,
                  syncStaged >>

\* The engine raises while it decodes or transcribes.
WorkerEngineRaise ==
  /\ worker.pc = "transcribing"
  /\ worker' = [worker EXCEPT !.pc = "except", !.exc = EngineError]
  /\ raised' = raised \cup {worker.job_id}
  /\ resp' = NoResponse
  /\ UNCHANGED << jobs, jobs_lock, queue, files, loop, clock, nextId,
                  statusLog, enqueued, started, accepted, removeFailed, finished,
                  escaped, syncStaged >>

\* WorkerStoreCompleted with jobs[job_id] = {...} instead of update(): the
\* record is replaced, and the keys the submission wrote are gone.
WorkerStoreCompletedReplace ==
  /\ worker.pc = "completed"
  /\ jobs_lock' = "free"
  /\ jobs' = (worker.job_id :>
                ([status |-> "completed", completed_at |-> UtcNow("worker")]
                   @@ worker.result)) @@ jobs
  /\ statusLog' = (worker.job_id :> Append(statusLog[worker.job_id], "completed"))
                  @@ statusLog
  /\ clock' = Ticked("worker")
  /\ worker' = [worker EXCEPT !.pc = "cleanup"]
  /\ resp' = NoResponse
  /\ UNCHANGED << queue, files, loop, nextId, enqueued, started, accepted,
                  raised, removeFailed, finished, escaped, syncStaged >>

\* WorkerStoreCompleted with `**result` left out of the update.
WorkerStoreCompletedNoResult ==
  /\ worker.pc = "completed"
  /\ jobs_lock' = "free"
  /\ WriteJob(worker.job_id,
              [status |-> "completed", completed_at |-> UtcNow("worker")])
  /\ clock' = Ticked("worker")
  /\ worker' = [worker EXCEPT !.pc = "cleanup"]
  /\ resp' = NoResponse
  /\ UNCHANGED << queue, files, loop, nextId, enqueued, started, accepted,
                  raised, removeFailed, finished, escaped, syncStaged >>

\* Lines 242-246, and the release of the lock.
WorkerStoreCompleted ==
  /\ worker.pc = "completed"
  /\ jobs_lock' = "free"
  /\ WriteJob(worker.job_id,
              [status |-> "completed", completed_at |-> UtcNow("worker")] @@ worker.result)
  /\ clock' = Ticked("worker")
  /\ worker' = [worker EXCEPT !.pc = "cleanup"]
  /\ resp' = NoResponse
  /\ UNCHANGED << queue, files, loop, nextId, enqueued, started, accepted,
                  raised, removeFailed, finished, escaped, syncStaged >>

\* WorkerStoreError with line 256 left out: the status and the error are
\* written, completed_at is not.
WorkerStoreErrorNoCompletedAt ==
  /\ worker.pc = "error"
  /\ jobs_lock' = "free"
  /\ IF worker.job_id \in DOMAIN jobs
       THEN /\ WriteJob(worker.job_id, [status |-> "error",
                                        error |-> worker.exc])
            /\ clock' = clock
            /\ escaped' = escaped
       ELSE /\ UNCHANGED << jobs, statusLog, clock >>
            /\ escaped' = escaped \cup {worker.job_id}
  /\ worker' = [worker EXCEPT !.pc = "cleanup"]
  /\ resp' = NoResponse
  /\ UNCHANGED << queue, files, loop, nextId, enqueued, started, accepted,
                  raised, removeFailed, finished, syncStaged >>

\* WorkerStoreError with line 254 left out: the error is written, the status
\* stays as it was.
WorkerStoreErrorNoStatus ==
  /\ worker.pc = "error"
  /\ jobs_lock' = "free"
  /\ WriteJob(worker.job_id, [error |-> worker.exc,
                              completed_at |-> UtcNow("worker")])
  /\ clock' = Ticked("worker")
  /\ worker' = [worker EXCEPT !.pc = "cleanup"]
  /\ resp' = NoResponse
  /\ UNCHANGED << queue, files, loop, nextId, enqueued, started, accepted,
                  raised, removeFailed, finished, escaped, syncStaged >>

\* WorkerStoreError followed by `raise`, with an executor whose thread ends
\* with the task that raised.
WorkerStoreErrorReraise ==
  /\ worker.pc = "error"
  /\ jobs_lock' = "free"
  /\ WriteJob(worker.job_id, [status |-> "error",
                              error |-> worker.exc,
                              completed_at |-> UtcNow("worker")])
  /\ clock' = Ticked("worker")
  /\ escaped' = escaped \cup {worker.job_id}
  /\ finished' = finished \cup {worker.job_id}
  /\ worker' = [worker EXCEPT !.pc = "dead"]
  /\ resp' = NoResponse
  /\ UNCHANGED << queue, files, loop, nextId, enqueued, started, accepted,
                  raised, removeFailed, syncStaged >>

\* Lines 253-257, and the release of the lock.  A missing record is a
\* KeyError inside the handler: it leaves the function after `finally`.
WorkerStoreError ==
  /\ worker.pc = "error"
  /\ jobs_lock' = "free"
  /\ IF worker.job_id \in DOMAIN jobs
       THEN /\ WriteJob(worker.job_id, [status |-> "error",
                                        error |-> worker.exc,
                                        completed_at |-> UtcNow("worker")])
            /\ clock' = Ticked("worker")
            /\ escaped' = escaped
       ELSE /\ UNCHANGED << jobs, statusLog, clock >>
            /\ escaped' = escaped \cup {worker.job_id}
  /\ worker' = [worker EXCEPT !.pc = "cleanup"]
  /\ resp' = NoResponse
  /\ UNCHANGED << queue, files, loop, nextId, enqueued, started, accepted,
                  raised, removeFailed, finished, syncStaged >>

\* WorkerCleanupCheck with the removal at the end of the `try` body instead of
\* `finally`: a task that took the `except` branch ends without it.
WorkerCleanupCheckSuccessOnly ==
  /\ worker.pc = "cleanup"
  /\ IF worker.file_path \in files /\ worker.exc = None
       THEN /\ worker' = [worker EXCEPT !.pc = "remove"]
            /\ finished' = finished
       ELSE /\ worker' = WorkerIdle
            /\ finished' = finished \cup {worker.job_id}
  /\ resp' = NoResponse
  /\ UNCHANGED << jobs, jobs_lock, queue, files, loop, clock, nextId,
                  statusLog, enqueued, started, accepted, raised, removeFailed,
                  escaped, syncStaged >>

\* Line 261: file_path.exists(); when it does not, the task ends here.
WorkerCleanupCheck ==
  /\ worker.pc = "cleanup"
  /\ IF worker.file_path \in files
       THEN /\ worker' = [worker EXCEPT !.pc = "remove"]
            /\ finished' = finished
       ELSE /\ worker' = WorkerIdle
            /\ finished' = finished \cup {worker.job_id}
  /\ resp' = NoResponse
  /\ UNCHANGED << jobs, jobs_lock, queue, files, loop, clock, nextId,
                  statusLog, enqueued, started, accepted, raised, removeFailed,
                  escaped, syncStaged >>

\* Lines 262-266: os.remove(file_path) removes the file, or raises (always
\* when the file has gone meanwhile); the exception is logged.  The task ends.
WorkerRemove ==
  /\ worker.pc = "remove"
  /\ \E ok \in {b \in BOOLEAN : b => worker.file_path \in files} :
       /\ files' = IF ok THEN files \ {worker.file_path} ELSE files
       /\ removeFailed' = IF ok THEN removeFailed
                          ELSE removeFailed \cup {worker.job_id}
  /\ worker' = WorkerIdle
  /\ finished' = finished \cup {worker.job_id}
  /\ resp' = NoResponse
  /\ UNCHANGED << jobs, jobs_lock, queue, loop, clock, nextId, statusLog,
                  enqueued, started, accepted, raised, escaped, syncStaged >>

WorkerNext ==
  \/ WorkerClaim
  \/ WorkerAcquire
  \/ WorkerMarkProcessing
  \/ WorkerEngineStart
  \/ WorkerEngineReturn
  \/ WorkerEngineRaise
  \/ WorkerStoreCompleted
  \/ WorkerStoreError
  \/ WorkerCleanupCheck
  \/ WorkerRemove

----------------------------------------------------------------------------
\* POST /transcribe

\* Lines 53-61: the temp path is the upload's own name.  mkdir may raise
\* before temp_file is bound, and then line 126 raises in its turn; open may
\* raise before the file exists, copyfileobj after it does.  `language` only
\* reaches the engine and the log, so the handler's state does not keep it.
SyncStage(filename, language) ==
  /\ loop.pc = "idle"
  /\ LET temp_file == SyncTempFile(filename)
     IN  \E outcome \in {"ok", "mkdir_raises", "open_raises", "copy_raises"} :
           /\ files' = IF outcome \in {"ok", "copy_raises"}
                         THEN files \cup {temp_file} ELSE files
           /\ syncStaged' = IF outcome \in {"ok", "copy_raises"}
                              THEN syncStaged \cup {temp_file} ELSE syncStaged
           /\ IF outcome = "mkdir_raises"
                THEN /\ loop' = LoopIdle
                     /\ resp' = [kind |-> "500", handler |-> "transcribe",
                                 job_id |-> None, temp_file |-> None,
                                 transcribed |-> FALSE,
                                 remove_raised |-> FALSE]
                ELSE /\ loop' = [LoopIdle EXCEPT
                                   !.pc = IF outcome = "ok" THEN "s_engine"
                                          ELSE "s_except",
                                   !.filename = filename,
                                   !.temp_file = temp_file]
                     /\ resp' = NoResponse
  /\ UNCHANGED << jobs, jobs_lock, queue, worker, clock, nextId, statusLog,
                  enqueued, started, accepted, raised, removeFailed, finished,
                  escaped >>

\* Lines 63-79: get_model() and whisper_model.transcribe(str(temp_file), ...),
\* on the event-loop thread; a missing file raises.
SyncEngineStart ==
  /\ loop.pc = "s_engine"
  /\ loop' = [loop EXCEPT !.pc = IF loop.temp_file \in files
                                   THEN "s_transcribing" ELSE "s_except"]
  /\ resp' = NoResponse
  /\ UNCHANGED << jobs, jobs_lock, queue, files, worker, clock, nextId,
                  hist >>

\* Lines 81-101: the segments are drained and segments_data is built.
SyncEngineReturn ==
  /\ loop.pc = "s_transcribing"
  /\ \E out \in EngineOutputs :
       loop' = [loop EXCEPT !.pc = "s_remove", !.out = out,
                            !.result = AssembleSync(out)]
  /\ resp' = NoResponse
  /\ UNCHANGED << jobs, jobs_lock, queue, files, worker, clock, nextId,
                  hist >>

\* The engine raises while it decodes or transcribes.
SyncEngineRaise ==
  /\ loop.pc = "s_transcribing"
  /\ loop' = [loop EXCEPT !.pc = "s_except"]
  /\ resp' = NoResponse
  /\ UNCHANGED << jobs, jobs_lock, queue, files, worker, clock, nextId,
                  hist >>

\* Lines 103-122: os.remove(temp_file), then the response; when os.remove
\* raises (always when the file has gone meanwhile) the handler at line 124
\* takes over.
SyncRemove ==
  /\ loop.pc = "s_remove"
  /\ \E ok \in {b \in BOOLEAN : b => loop.temp_file \in files} :
       IF ok
         THEN /\ files' = files \ {loop.temp_file}
              /\ resp' = [kind |-> "200", handler |-> "transcribe",
                          job_id |-> None, body |-> loop.result,
                          temp_file |-> loop.temp_file,
                          transcribed |-> TRUE, remove_raised |-> FALSE]
              /\ loop' = LoopIdle
         ELSE /\ files' = files
              /\ resp' = NoResponse
              /\ loop' = [loop EXCEPT !.pc = "s_except"]
  /\ UNCHANGED << jobs, jobs_lock, queue, worker, clock, nextId, hist >>

\* SyncExcept with lines 126-127 left out: the failure is reported and the
\* file stays.
SyncExceptNoRemove ==
  /\ loop.pc = "s_except"
  /\ files' = files
  /\ resp' = [kind |-> "500", handler |-> "transcribe", job_id |-> None,
              temp_file |-> loop.temp_file,
              transcribed |-> Bound(loop.out),
              remove_raised |-> FALSE]
  /\ loop' = LoopIdle
  /\ UNCHANGED << jobs, jobs_lock, queue, worker, clock, nextId, hist >>

\* Lines 124-129: the file is removed when it exists, and the request ends
\* with 500, also when this os.remove raises.
SyncExcept ==
  /\ loop.pc = "s_except"
  /\ \E ok \in {b \in BOOLEAN : b => loop.temp_file \in files} :
       /\ files' = IF ok THEN files \ {loop.temp_file} ELSE files
       /\ resp' = [kind |-> "500", handler |-> "transcribe", job_id |-> None,
                   temp_file |-> loop.temp_file,
                   transcribed |-> (Bound(loop.out)),
                   remove_raised |-> (loop.temp_file \in files /\ ~ok)]
  /\ loop' = LoopIdle
  /\ UNCHANGED << jobs, jobs_lock, queue, worker, clock, nextId, hist >>

----------------------------------------------------------------------------
\* GET /transcribe-status/{job_id}

\* TranscribeStatus with jobs.get(job_id, {}) instead of the membership test:
\* an unknown id is answered with an empty record.
TranscribeStatusDefault(job_id) ==
  /\ loop.pc = "idle"
  /\ jobs_lock = "free"
  /\ resp' = [kind |-> "200", handler |-> "transcribe_status",
              job_id |-> job_id,
              body |-> IF job_id \in DOMAIN jobs THEN jobs[job_id]
                       ELSE [k \in {} |-> None]]
  /\ UNCHANGED << jobs, jobs_lock, queue, files, worker, loop, clock, nextId,
                  hist >>

\* Lines 283-286, inside `with jobs_lock:`; the event loop waits for the lock.
TranscribeStatus(job_id) ==
  /\ loop.pc = "idle"
  /\ jobs_lock = "free"
  /\ resp' = IF job_id \notin DOMAIN jobs
               THEN [kind |-> "404", handler |-> "transcribe_status",
                     job_id |-> job_id, detail |-> "Job not found"]
               ELSE [kind |-> "200", handler |-> "transcribe_status",
                     job_id |-> job_id, body |-> jobs[job_id]]
  /\ UNCHANGED << jobs, jobs_lock, queue, files, worker, loop, clock, nextId,
                  hist >>

\* The ids a status request may name.
QueryIds == {Uuid(n) : n \in 1..MaxJobs} \cup {UnknownId}

----------------------------------------------------------------------------
\* GET /transcribe-jobs

\* dict.get(key): the value, None for a missing key.
DictGet(d, key) == IF key \in DOMAIN d THEN d[key] ELSE None

\* ListJobs with each entry a copy of the whole record.
ListJobsWholeRecords ==
  /\ loop.pc = "idle"
  /\ jobs_lock = "free"
  /\ resp' = [kind |-> "200", handler |-> "list_jobs", job_id |-> None,
              body |-> [ total_jobs |-> Cardinality(DOMAIN jobs),
                         jobs |-> [ job_id \in DOMAIN jobs |-> jobs[job_id] ] ]]
  /\ UNCHANGED << jobs, jobs_lock, queue, files, worker, loop, clock, nextId,
                  hist >>

\* Lines 295-307, inside `with jobs_lock:`; the event loop waits for the lock.
ListJobs ==
  /\ loop.pc = "idle"
  /\ jobs_lock = "free"
  /\ resp' = [kind |-> "200", handler |-> "list_jobs", job_id |-> None,
              body |-> [ total_jobs |-> Cardinality(DOMAIN jobs),
                         jobs |-> [ job_id \in DOMAIN jobs |->
                                      [ status |-> DictGet(jobs[job_id], "status"),
                                        filename |-> DictGet(jobs[job_id], "filename"),
                                        created_at |-> DictGet(jobs[job_id], "created_at"),
                                        completed_at |-> DictGet(jobs[job_id], "completed_at") ] ] ]]
  /\ UNCHANGED << jobs, jobs_lock, queue, files, worker, loop, clock, nextId,
                  hist >>

----------------------------------------------------------------------------
Next ==
  \/ \E filename \in FileNames, language \in Languages : AsyncStage(filename, language)
  \/ AsyncCreateRecord
  \/ AsyncEnqueue
  \/ \E filename \in SyncFileNames, language \in Languages : SyncStage(filename, language)
  \/ SyncEngineStart
  \/ SyncEngineReturn
  \/ SyncEngineRaise
  \/ SyncRemove
  \/ SyncExcept
  \/ \E job_id \in QueryIds : TranscribeStatus(job_id)
  \/ ListJobs
  \/ WorkerNext

Spec == Init /\ [][Next]_vars

\* The executor's thread runs whenever it has something to do: a task is
\* waiting, or the task it runs can take its next step (the lock is only ever
\* held for the length of a dict write, and the engine returns or raises).
FairSpec == Spec /\ WF_vars(WorkerNext)

----------------------------------------------------------------------------
\* The assembly of a result, on every engine output of AssembleInputs

\* The engine has just returned the same (segments, info) to the worker, at
\* work on the first job, and to POST /transcribe.
AssembleInit ==
  /\ \E out \in AssembleInputs :
       /\ worker = [WorkerIdle EXCEPT !.pc = "assemble", !.job_id = Uuid(1),
                                      !.file_path = AsyncTempFile(Uuid(1), "a"),
                                      !.language = "en", !.out = out]
       /\ loop = [LoopIdle EXCEPT !.pc = "s_assemble", !.filename = "b",
                                  !.temp_file = SyncTempFile("b"), !.out = out]
  /\ jobs = (Uuid(1) :> [ status |-> "processing",
                          created_at |-> << "loop", 1 >>,
                          filename |-> "a",
                          language_requested |-> "en",
                          started_at |-> << "worker", 1 >> ])
  /\ jobs_lock = "free"
  /\ queue = << >>
  /\ files = {AsyncTempFile(Uuid(1), "a"), SyncTempFile("b")}
  /\ resp = NoResponse
  /\ clock = [thread \in {"loop", "worker"} |-> 1]
  /\ nextId = 1
  /\ statusLog = (Uuid(1) :> << "queued", "processing" >>)
  /\ enqueued = << Uuid(1) >>
  /\ started = << Uuid(1) >>
  /\ accepted = {Uuid(1)}
  /\ raised = {}
  /\ removeFailed = {}
  /\ finished = {}
  /\ escaped = {}
  /\ syncStaged = {SyncTempFile("b")}

\* Lines 211-238: the worker builds `result`.
WorkerAssemble ==
  /\ worker.pc = "assemble"
  /\ worker' = [worker EXCEPT !.pc = "store", !.result = AssembleAsync(worker.out)]
  /\ resp' = NoResponse
  /\ UNCHANGED << jobs, jobs_lock, queue, files, loop, clock, nextId, hist >>

\* Lines 90-101 and 107-120: POST /transcribe builds `response`.
SyncAssemble ==
  /\ loop.pc = "s_assemble"
  /\ loop' = [loop EXCEPT !.pc = "s_remove", !.result = AssembleSync(loop.out)]
  /\ resp' = NoResponse
  /\ UNCHANGED << jobs, jobs_lock, queue, files, worker, clock, nextId,
                  hist >>

AssembleNext ==
  \/ WorkerAssemble
  \/ SyncAssemble
  \/ WorkerAcquire
  \/ WorkerStoreCompleted

AssembleSpec == AssembleInit /\ [][AssembleNext]_vars

----------------------------------------------------------------------------
\* Vocabulary of the properties

Range(seq) == {seq[i] : i \in 1..Len(seq)}

\* The ids uuid4() has produced so far.
GeneratedIds == {Uuid(n) : n \in 1..nextId}

TerminalStatuses == {"completed", "error"}

Terminal(job_id) ==
  job_id \in DOMAIN jobs /\ jobs[job_id]["status"] \in TerminalStatuses

\* The temp file staged for a job that has a record.
TempFileOf(job_id) == AsyncTempFile(job_id, jobs[job_id]["filename"])

\* The tasks that exist: waiting in the queue or run by the worker.
TaskIds ==
  {queue[i].job_id : i \in 1..Len(queue)}
    \cup (IF worker.pc = "idle" THEN {} ELSE {worker.job_id})

\* The non-empty prefixes of a sequence.
Prefixes(seq) == {SubSeq(seq, 1, n) : n \in 1..Len(seq)}

----------------------------------------------------------------------------
\* C1: the status values written to a job's record, in order, are a prefix of
\* queued, processing, completed or of queued, processing, error: nothing is
\* skipped, nothing goes back, nothing follows a terminal status; the record
\* shows the last value written; and a task never exists before its record.
C1_StatusSequence ==
  /\ DOMAIN statusLog = DOMAIN jobs
  /\ \A j \in DOMAIN jobs :
       /\ statusLog[j] \in Prefixes(<<"queued", "processing", "completed">>)
                             \cup Prefixes(<<"queued", "processing", "error">>)
       /\ jobs[j]["status"] = statusLog[j][Len(statusLog[j])]
  /\ \A j \in TaskIds : j \in DOMAIN jobs

\* Both ways through the lifecycle have been taken.
C1_Witness ==
  \E j, k \in DOMAIN jobs :
    /\ statusLog[j] = <<"queued", "processing", "completed">>
    /\ statusLog[k] = <<"queued", "processing", "error">>

\* C2: at most one job has status processing.
C2_AtMostOneProcessing ==
  Cardinality({j \in DOMAIN jobs : jobs[j]["status"] = "processing"}) <= 1

\* One job is processing while the task of another, still queued, waits.
C2_Witness ==
  \E j, k \in DOMAIN jobs :
    /\ jobs[j]["status"] = "processing"
    /\ jobs[k]["status"] = "queued"
    /\ k \in {queue[i].job_id : i \in 1..Len(queue)}

\* C3: the engine invocation of POST /transcribe and the engine invocation
\* of the worker are never in progress at the same time.
C3_EngineExclusive ==
  ~(worker.pc = "transcribing" /\ loop.pc = "s_transcribing")

\* C4 as claimed: whenever a job's status is terminal, its temp file does not
\* exist.
C4_TerminalMeansNoFile ==
  \A j \in DOMAIN jobs : Terminal(j) => TempFileOf(j) \notin files

\* C4 as the code has it: once the task of a job has returned, the job's
\* status is terminal and its temp file does not exist, unless the worker's
\* os.remove raised or POST /transcribe staged a file of the same path.
\* (The terminal status is written before the file is removed.)
C4_FinishedMeansNoFile ==
  \A j \in finished :
    /\ Terminal(j)
    /\ (j \notin removeFailed /\ TempFileOf(j) \notin syncStaged)
         => TempFileOf(j) \notin files

\* A completed job and a failed job whose tasks have returned after a removal
\* that did not raise, with no synchronous request near their files.
C4_Witness ==
  \E j, k \in finished \ removeFailed :
    /\ jobs[j]["status"] = "completed"
    /\ jobs[k]["status"] = "error"
    /\ k \in raised
    /\ syncStaged = {}
    /\ files = {}

\* C5: tasks are claimed in the order of their submission, and a job enters
\* processing only when every job submitted before it is completed or failed.
C5_Fifo ==
  /\ started \in Prefixes(enqueued) \cup { << >> }
  /\ \A a, b \in 1..Len(enqueued) :
       (a < b /\ Len(statusLog[enqueued[b]]) >= 2) => Terminal(enqueued[a])

\* The second job submitted is processing, the first one is completed or
\* failed, and both tasks were claimed in the order of submission.
C5_Witness ==
  /\ Len(enqueued) = 2
  /\ started = enqueued
  /\ jobs[enqueued[2]]["status"] = "processing"
  /\ Terminal(enqueued[1])

\* The keys of a result, and every key the worker adds with a result.
ResultKeys == {"transcript", "language", "language_probability", "segments"}
ResultKeysAll == ResultKeys \cup {"success", "all_language_candidates"}

\* C6: a completed record holds the result fields and no error, a failed one
\* an error and no result field, a queued or processing one neither.
C6_ResultXorError ==
  \A j \in DOMAIN jobs :
    LET keys == DOMAIN jobs[j]
        status == jobs[j]["status"]
    IN  /\ status = "completed" => (ResultKeys \subseteq keys /\ "error" \notin keys)
        /\ status = "error" => ("error" \in keys /\ keys \cap ResultKeysAll = {})
        /\ status \in {"queued", "processing"}
             => ("error" \notin keys /\ keys \cap ResultKeysAll = {})
        /\ status \in {"queued", "processing", "completed", "error"}

\* A completed and a failed record side by side.
C6_Witness ==
  \E j, k \in DOMAIN jobs :
    /\ jobs[j]["status"] = "completed" /\ jobs[j]["transcript"] = "hi yo"
    /\ jobs[k]["status"] = "error" /\ jobs[k]["error"] = EngineError

\* Every id a run can generate.
AllIds == {Uuid(n) : n \in 1..MaxJobs}

\* C7: every job whose task was enqueued is eventually completed or failed.
C7_EventuallyTerminal ==
  \A j \in AllIds : (j \in Range(enqueued)) ~> Terminal(j)

\* Two enqueued jobs have both reached a terminal status.
C7_Witness ==
  /\ Len(enqueued) = 2
  /\ \A j \in Range(enqueued) : Terminal(j)

\* C8: a job whose engine invocation raised is recorded as failed with an
\* error description and its task lets no exception out; and whenever such a
\* job exists, every task waiting in the queue is still run to its end.
C8_FailureIsolated ==
  /\ [](\A j \in raised \cap finished :
          /\ j \in DOMAIN jobs
          /\ jobs[j]["status"] = "error"
          /\ "error" \in DOMAIN jobs[j]
          /\ jobs[j]["error"] # ""
          /\ j \notin escaped)
  /\ \A k \in AllIds :
       (raised # {} /\ k \in {queue[i].job_id : i \in 1..Len(queue)})
         ~> (k \in finished)

\* The first job's engine invocation raised, and the task submitted behind it
\* has been run to its end.
C8_Witness ==
  /\ Len(enqueued) = 2
  /\ enqueued[1] \in raised
  /\ jobs[enqueued[1]]["status"] = "error"
  /\ enqueued[2] \in finished
  /\ jobs[enqueued[2]]["status"] = "completed"

\* C9: a submission answered 500 has left no record and no task for its id;
\* a submission answered 202 has a record first written as queued and exactly
\* one task; and no id other than these and the one being submitted has a
\* record or a task.
C9_SubmissionAllOrNothing ==
  /\ (resp.kind = "500" /\ resp.handler = "transcribe_async")
       => /\ resp.job_id \notin DOMAIN jobs
          /\ resp.job_id \notin Range(enqueued)
          /\ resp.job_id \notin TaskIds
  /\ (resp.kind = "202" /\ resp.handler = "transcribe_async")
       => /\ resp.job_id \in DOMAIN jobs
          /\ statusLog[resp.job_id][1] = "queued"
          /\ Cardinality({i \in 1..Len(enqueued) : enqueued[i] = resp.job_id}) = 1
  /\ \A j \in GeneratedIds \ (accepted \cup {loop.job_id}) :
       j \notin DOMAIN jobs /\ j \notin Range(enqueued)
  /\ \A j \in accepted :
       /\ j \in DOMAIN jobs
       /\ Cardinality({i \in 1..Len(enqueued) : enqueued[i] = j}) = 1

\* A submission has just failed while staging, after another one was accepted.
C9_Witness ==
  /\ resp.kind = "500"
  /\ resp.handler = "transcribe_async"
  /\ accepted # {}
  /\ resp.job_id \notin accepted

\* The keys jobs[job_id] is created with.
InitialKeys == {"status", "created_at", "filename", "language_requested"}

\* C10: a status request is answered 404 'Job not found' exactly when its id
\* was never returned by a submission, and a record it returns holds status,
\* created_at, filename and language_requested.
C10_StatusLookup ==
  resp.handler = "transcribe_status"
    => /\ resp.kind \in {"200", "404"}
       /\ resp.kind = "404" <=> resp.job_id \notin accepted
       /\ resp.kind = "404" => resp.detail = "Job not found"
       /\ resp.kind = "200" => InitialKeys \subseteq DOMAIN resp.body

\* A generated id whose submission failed is asked for, while another job has
\* a record.
C10_Witness ==
  /\ resp.handler = "transcribe_status"
  /\ resp.kind = "404"
  /\ resp.job_id \in GeneratedIds
  /\ accepted # {}

\* The keys of an entry of the listing.
SummaryKeys == {"status", "filename", "created_at", "completed_at"}

\* C11: a listing reports as total_jobs the number of records, holds one
\* entry per job id, each entry holds status, filename, created_at and
\* completed_at and nothing else (no transcript, segments or error), and
\* each of the four is what the record, as a status request returns it,
\* holds in the same state (null for a key the record lacks).
C11_ListingMatchesStore ==
  resp.handler = "list_jobs"
    => /\ resp.kind = "200"
       /\ resp.body.total_jobs = Cardinality(DOMAIN jobs)
       /\ DOMAIN resp.body.jobs = DOMAIN jobs
       /\ \A j \in DOMAIN jobs :
            LET entry == resp.body.jobs[j]
                record == jobs[j]
            IN  /\ DOMAIN entry = SummaryKeys
                /\ entry["status"] = record["status"]
                /\ entry["filename"] = record["filename"]
                /\ entry["created_at"] = record["created_at"]
                /\ entry["completed_at"] =
                     (IF "completed_at" \in DOMAIN record
                        THEN record["completed_at"] ELSE None)

\* A listing of two jobs, one completed with a transcript in its record, the
\* other still queued.
C11_Witness ==
  /\ resp.handler = "list_jobs"
  /\ resp.body.total_jobs = 2
  /\ \E j, k \in DOMAIN jobs :
       /\ jobs[j]["status"] = "completed"
       /\ jobs[j]["transcript"] = "hi yo"
       /\ resp.body.jobs[j]["completed_at"] # None
       /\ jobs[k]["status"] = "queued"
       /\ resp.body.jobs[k]["completed_at"] = None

\* C12: when POST /transcribe returns, on every exit path, the file staged
\* for the request no longer exists.
C12_SyncFileGone ==
  (resp.handler = "transcribe" /\ resp.temp_file # None)
    => resp.temp_file \notin files

\* C12 (amended): when POST /transcribe returns, the caller has the
\* assembled result (200) or a failure (500), and the file staged for the
\* request no longer exists unless the handler's last os.remove raised.
C12_SyncFileGoneUnlessRemoveRaised ==
  resp.handler = "transcribe"
    => /\ resp.kind \in {"200", "500"}
       /\ resp.kind = "200"
            => /\ resp.transcribed
               /\ resp.body \in {AssembleSync(out) : out \in EngineOutputs}
       /\ (resp.temp_file # None /\ ~resp.remove_raised)
            => resp.temp_file \notin files

\* POST /transcribe staged its file, failed before the engine returned, and
\* answers 500 with the file removed.
C12_Witness ==
  /\ resp.handler = "transcribe"
  /\ resp.kind = "500"
  /\ ~resp.transcribed
  /\ ~resp.remove_raised
  /\ resp.temp_file \in syncStaged
  /\ resp.temp_file \notin files

\* C13: a removal that fails changes no outcome: a job whose removal
\* failed is completed with its result when the engine returned and failed
\* with the engine's error when it raised, and a POST /transcribe whose
\* engine invocation returned answers 200 with the result.
C13_RemovalFailureHarmless ==
  /\ \A j \in removeFailed :
       IF j \in raised
         THEN jobs[j]["status"] = "error" /\ "error" \in DOMAIN jobs[j]
         ELSE jobs[j]["status"] = "completed" /\ "transcript" \in DOMAIN jobs[j]
  /\ (resp.handler = "transcribe" /\ resp.transcribed) => resp.kind = "200"

\* C14: from the same engine output, POST /transcribe builds the result
\* the worker builds for an asynchronous job.
C14_SyncEqualsAsync ==
  (worker.pc = "store" /\ loop.pc = "s_remove" /\ worker.out = loop.out)
    => loop.result = worker.result

\* The texts of the stored segments, first to last, with one space between
\* two of them.
RECURSIVE SpaceJoined(_)
SpaceJoined(segments) ==
  IF Len(segments) = 0 THEN ""
  ELSE IF Len(segments) = 1 THEN segments[1]["text"]
  ELSE SpaceJoined(SubSeq(segments, 1, Len(segments) - 1))
         \o " " \o segments[Len(segments)]["text"]

\* C15: the segments stored for a completed job are the engine's, in the
\* engine's order, with ids 0, 1, ..., n-1, and the stored transcript is
\* their texts in that order with single spaces between, "" when there are
\* none.
C15_SegmentsInEngineOrder ==
  (worker.pc = "cleanup" /\ Bound(worker.out))
    => LET stored == jobs[worker.job_id]
           produced == worker.out.segments
       IN  /\ stored["status"] = "completed"
           /\ Len(stored["segments"]) = Len(produced)
           /\ \A i \in 1..Len(produced) :
                /\ stored["segments"][i]["id"] = i - 1
                /\ stored["segments"][i]["text"] = produced[i].text
           /\ stored["transcript"] = SpaceJoined(stored["segments"])
           /\ Len(produced) = 0 => stored["transcript"] = ""

\* A job completed with three segments whose texts are not in sorted order.
C15_Witness ==
  /\ worker.pc = "cleanup"
  /\ Bound(worker.out)
  /\ Len(worker.out.segments) = 3
  /\ jobs[worker.job_id]["transcript"] = "yo hi yo"
  /\ jobs[worker.job_id]["segments"][3]["id"] = 2

\* C16: every write and every read of the job map is made under
\* jobs_lock: a step of the worker changes the map only while the worker
\* holds the lock, and a handler changes or reads the map only in a step
\* that finds the lock free and takes it for the step.
C16_StoreAccessUnderLock ==
  [][ /\ jobs' # jobs
        => IF worker' # worker THEN jobs_lock = "worker" ELSE jobs_lock = "free"
      /\ resp'.handler \in {"transcribe_status", "list_jobs"}
        => jobs_lock = "free" ]_vars

\* C18: jobs_lock is not held while the engine runs, and while a job is in
\* the processing state the event-loop thread, which answers the status
\* requests, is not kept inside an engine invocation.
C18_StatusNeverWaitsForEngine ==
  /\ worker.pc = "transcribing" => jobs_lock = "free"
  /\ (\E j \in DOMAIN jobs : jobs[j]["status"] = "processing")
       => loop.pc # "s_transcribing"

\* C17: the release of the staged file (line 261, then os.remove) is run
\* once by every task, as its last step and on every exit path: the worker
\* comes to it only with the terminal status of its job written, a task
\* ends only from it and only once, and no earlier step of the worker
\* removes a file, neither before nor during the engine invocation.
C17_ReleaseOnceAndLast ==
  /\ [](worker.pc \in {"cleanup", "remove"} => Terminal(worker.job_id))
  /\ [][ /\ worker.pc = "cleanup" => worker'.pc \in {"cleanup", "remove", "idle"}
         /\ worker.pc = "remove" => worker'.pc \in {"remove", "idle"}
         /\ (worker' # worker /\ files' # files)
           => /\ worker.pc = "remove"
              /\ files' = files \ {worker.file_path}
         /\ finished' # finished
           => /\ worker.pc \in {"cleanup", "remove"}
              /\ worker'.pc = "idle"
              /\ worker.job_id \notin finished
              /\ finished' = finished \cup {worker.job_id}
         /\ (worker.pc # "idle" /\ worker'.pc = "idle")
           => worker.pc \in {"cleanup", "remove"} ]_vars

\* Two tasks have ended, one after its engine invocation raised and one
\* after it returned, each with its file removed.
C17_Witness ==
  \E j, k \in finished \ removeFailed :
    /\ j \in raised /\ jobs[j]["status"] = "error"
    /\ k \notin raised /\ jobs[k]["status"] = "completed"
    /\ TempFileOf(j) \notin files
    /\ TempFileOf(k) \notin files
    /\ worker.pc = "idle"

\* The keys a worker never writes.
SubmissionKeys == {"filename", "language_requested", "created_at"}

\* C19: the job map changes only by a submission adding one new record and
\* by the worker updating the record of the job it executes, which keeps
\* its filename, language_requested and created_at; every other record is
\* left as it was, and a status request, a listing and a synchronous
\* transcription change nothing.
C19_StoreFrame ==
  [][ jobs' # jobs
        => \/ /\ loop.pc = "a_record"
              /\ worker' = worker
              /\ loop.job_id \notin DOMAIN jobs
              /\ DOMAIN jobs' = DOMAIN jobs \cup {loop.job_id}
              /\ jobs'[loop.job_id]["status"] = "queued"
              /\ \A j \in DOMAIN jobs : jobs'[j] = jobs[j]
           \/ /\ worker' # worker
              /\ loop' = loop
              /\ resp' = NoResponse
              /\ DOMAIN jobs' = DOMAIN jobs
              /\ \A j \in DOMAIN jobs \ {worker.job_id} : jobs'[j] = jobs[j]
              /\ \A key \in SubmissionKeys :
                   /\ key \in DOMAIN jobs'[worker.job_id]
                   /\ jobs'[worker.job_id][key] = jobs[worker.job_id][key] ]_vars

\* The worker has completed the second job while the record of the first,
\* which failed, and the submission keys of both are as they were.
C19_Witness ==
  /\ DOMAIN jobs = {Uuid(1), Uuid(2)}
  /\ jobs[Uuid(1)]["status"] = "error"
  /\ jobs[Uuid(2)]["status"] = "completed"
  /\ jobs[Uuid(2)]["filename"] = "a"
  /\ jobs[Uuid(2)]["created_at"] = << "loop", 2 >>
  /\ worker.job_id = Uuid(2)

\* C20: every record has created_at; it has started_at exactly when its
\* status is processing, completed or error, and completed_at exactly when
\* its status is completed or error; a step that changes the status of an
\* existing record writes the timestamp of the new status in the same step.
C20_TimestampsFollowStatus ==
  /\ [](\A j \in DOMAIN jobs :
          /\ "created_at" \in DOMAIN jobs[j]
          /\ "started_at" \in DOMAIN jobs[j]
               <=> jobs[j]["status"] \in {"processing"} \cup TerminalStatuses
          /\ "completed_at" \in DOMAIN jobs[j]
               <=> jobs[j]["status"] \in TerminalStatuses)
  /\ [][ \A j \in DOMAIN jobs :
           jobs'[j]["status"] # jobs[j]["status"]
             => LET stamp == IF jobs'[j]["status"] = "processing"
                               THEN "started_at" ELSE "completed_at"
                IN  /\ stamp \notin DOMAIN jobs[j]
                    /\ stamp \in DOMAIN jobs'[j]
                    /\ jobs'[j][stamp] = UtcNow("worker") ]_vars

\* One job is completed, the other is processing: the first has all three
\* timestamps, the second has no completed_at.
C20_Witness ==
  \E j, k \in DOMAIN jobs :
    /\ jobs[j]["status"] = "completed"
    /\ {"created_at", "started_at", "completed_at"} \subseteq DOMAIN jobs[j]
    /\ jobs[k]["status"] = "processing"
    /\ "started_at" \in DOMAIN jobs[k]
    /\ "completed_at" \notin DOMAIN jobs[k]

====
